---- MODULE Spec2Model ----
(***************************************************************************)
(* The return protocol of the wasmi register-machine executor              *)
(* (crates/wasmi/src/engine/executor/instrs/return_.rs) together with the  *)
(* operand primitives of crates/wasmi/src/engine/bytecode/utils.rs.        *)
(*                                                                         *)
(* The executor owns a call stack, a value stack, an instance cache, an    *)
(* instruction pointer `ip` and a register-window pointer `sp`.  The       *)
(* dispatch loop fetches the instruction at `ip`; for every instruction of *)
(* the return family it calls the handler modelled here.                   *)
(***************************************************************************)
EXTENDS Integers, Sequences, FiniteSets, TLC

(***************************************************************************)
(* Bounds of the model.                                                    *)
(***************************************************************************)
\* Deepest call stack an initial state holds.
MaxDepth == 2
\* Largest head register of a frame's result span.
MaxHead == 1
\* Mutable registers of every frame (registers 0 .. WindowRegs - 1).
WindowRegs == 10
\* Cells reserved at the base of the value stack for the root's results.
RootResults == 9
\* Function-local constants of the second function of the program.
ConstsF2 == 1

(***************************************************************************)
(* Untyped values.  An UntypedVal is a 64-bit pattern; it is kept as four  *)
(* 16-bit limbs, most significant first.  A 32-bit immediate is kept as    *)
(* two 16-bit limbs.                                                       *)
(***************************************************************************)
Limb == 2 ^ 16

ZeroVal == <<0, 0, 0, 0>>

\* A value that identifies the cell it was first stored in.
Token(i) == <<0, 0, 0, i + 1>>

\* bool::from(UntypedVal): the bit pattern is nonzero.
ToBool(v) == v # ZeroVal

\* u32::from(AnyConst32).into(): zero extension to 64 bits.
FromImm32(imm) == <<0, 0, imm[1], imm[2]>>

\* i64::from(Const32<i64>).into(): sign extension to 64 bits.
FromI64Imm32(imm) ==
    IF imm[1] >= 32768 THEN <<Limb - 1, Limb - 1, imm[1], imm[2]>>
                       ELSE <<0, 0, imm[1], imm[2]>>

\* Position of the highest set bit of n, for 1 <= n < 2^23.
RECURSIVE HighBit(_)
HighBit(n) == IF n <= 1 THEN 0 ELSE 1 + HighBit(n \div 2)

RECURSIVE Pow2(_)
Pow2(n) == IF n = 0 THEN 1 ELSE 2 * Pow2(n - 1)

\* The f64 bit pattern with the given sign, biased exponent and the top 23
\* bits of the fraction (the low 29 bits of the fraction are zero).
F64Bits(sign, exp11, frac23) ==
    << sign * 32768 + exp11 * 16 + (frac23 \div 524288),
       (frac23 \div 8) % Limb,
       (frac23 % 8) * 8192,
       0 >>

\* f64::from(Const32<f64>).into(): the f32 is promoted to f64 (exact).
FromF64Imm32(imm) ==
    LET sign == imm[1] \div 32768
        exp8 == (imm[1] % 32768) \div 128
        frac == (imm[1] % 128) * Limb + imm[2]
    IN  IF exp8 = 0 /\ frac = 0 THEN F64Bits(sign, 0, 0)
        ELSE IF exp8 = 255 THEN F64Bits(sign, 2047, frac)
        ELSE IF exp8 = 0
             THEN LET p == HighBit(frac)
                  IN  F64Bits(sign, 874 + p, 2 * ((frac - Pow2(p)) * Pow2(22 - p)))
             ELSE F64Bits(sign, exp8 + 896, frac)

(***************************************************************************)
(* Registers (utils.rs).                                                   *)
(***************************************************************************)
\* Two's complement wrap-around of the 16-bit signed index.
WrapI16(x) == ((x + 32768) % Limb) - 32768

\* Mutant of next_n: the index saturates at the largest index.
next_n_saturating(self, n) == IF self + n > 32767 THEN 32767 ELSE self + n

\* Reg::next_n: i16::wrapping_add_unsigned
next_n(self, n) == WrapI16(self + n)

\* Reg::prev_n: i16::wrapping_sub_unsigned
prev_n(self, n) == WrapI16(self - n)

\* Reg::next
next(self) == next_n(self, 1)

\* Reg::prev
prev(self) == prev_n(self, 1)

\* Reg::is_const
is_const(self) == self < 0

(***************************************************************************)
(* The instruction stream.                                                 *)
(***************************************************************************)
Instr(op, condition, regs, imm, n) ==
    [op |-> op, condition |-> condition, regs |-> regs, imm |-> imm, len |-> n]

NoImm == <<0, 0>>

\* The first function: no function-local constants.
BodyF1 ==
    << Instr("ReturnNez", 1, <<>>, NoImm, 0),
       Instr("ReturnNezReg", 1, <<2>>, NoImm, 0),
       Instr("ReturnNezReg2", 1, <<3, 2>>, NoImm, 0),
       Instr("ReturnNezImm32", 1, <<>>, <<0, 42>>, 0),
       Instr("ReturnNezI64Imm32", 1, <<>>, <<65535, 65529>>, 0),
       Instr("ReturnNezF64Imm32", 1, <<>>, <<16320, 0>>, 0),
       Instr("ReturnNezSpan", 1, <<2>>, NoImm, 3),
       Instr("ReturnNezMany", 1, <<2, 3>>, NoImm, 0),
       Instr("RegisterList", 0, <<4, 5, 6>>, NoImm, 0),
       Instr("RegisterList", 0, <<7, 8, 9>>, NoImm, 0),
       Instr("Register", 0, <<0>>, NoImm, 0),
       Instr("ReturnReg3", 0, <<4, 0, 4>>, NoImm, 0),
       Instr("ReturnSpan", 0, <<5>>, NoImm, 4),
       Instr("ReturnReg", 0, <<1>>, NoImm, 0),
       Instr("Return", 0, <<>>, NoImm, 0) >>

\* The second function: ConstsF2 function-local constants (registers -1 ..).
BodyF2 ==
    << Instr("ReturnNezMany", 1, <<-1, 0>>, NoImm, 0),
       Instr("Register2", 0, <<2, 2>>, NoImm, 0),
       Instr("ReturnNezMany", 1, <<3, 2>>, NoImm, 0),
       Instr("RegisterList", 0, <<9, -1, 0>>, NoImm, 0),
       Instr("Register3", 0, <<5, 6, 7>>, NoImm, 0),
       Instr("ReturnNezReg", 1, <<-1>>, NoImm, 0),
       Instr("ReturnReg", 0, <<2>>, NoImm, 0),
       Instr("ReturnReg2", 0, <<0, -1>>, NoImm, 0),
       Instr("ReturnReg3", 0, <<2, 0, 2>>, NoImm, 0),
       Instr("ReturnImm32", 0, <<>>, <<65535, 65535>>, 0),
       Instr("ReturnI64Imm32", 0, <<>>, <<0, 7>>, 0),
       Instr("ReturnF64Imm32", 0, <<>>, <<49152, 0>>, 0),
       Instr("ReturnSpan", 0, <<-1>>, NoImm, 2),
       Instr("ReturnMany", 0, <<2, 3, 4>>, NoImm, 0),
       Instr("Register", 0, <<5>>, NoImm, 0),
       Instr("ReturnMany", 0, <<0, -1, 2>>, NoImm, 0),
       Instr("RegisterList", 0, <<3, 4, 5>>, NoImm, 0),
       Instr("Register2", 0, <<6, 7>>, NoImm, 0),
       Instr("Return", 0, <<>>, NoImm, 0) >>

Program == BodyF1 \o BodyF2

Funcs == {1, 2}

FuncStart(f) == IF f = 1 THEN 1 ELSE Len(BodyF1) + 1

FuncEnd(f) == IF f = 1 THEN Len(BodyF1) ELSE Len(Program)

\* Number of function-local constants of a function.
FuncConsts(f) == IF f = 1 THEN 0 ELSE ConstsF2

\* The module instance a function belongs to.
FuncInstance(f) == f

ContinuationOps == {"RegisterList", "Register", "Register2", "Register3"}

\* The return instructions, and those of them that return on a condition.
UnconditionalOps ==
    {"Return", "ReturnReg", "ReturnReg2", "ReturnReg3", "ReturnImm32",
     "ReturnI64Imm32", "ReturnF64Imm32", "ReturnSpan", "ReturnMany"}

ConditionalOps ==
    {"ReturnNez", "ReturnNezReg", "ReturnNezReg2", "ReturnNezImm32",
     "ReturnNezI64Imm32", "ReturnNezF64Imm32", "ReturnNezSpan", "ReturnNezMany"}

\* Instruction::get at a position of the stream.
InstrAt(p) ==
    IF p \in 1..Len(Program) THEN Program[p]
                             ELSE Instr("Invalid", 0, <<>>, NoImm, 0)

\* The positions of a function at which the dispatch loop can stand.
DispatchPoints(f) ==
    {p \in FuncStart(f)..FuncEnd(f) : Program[p].op \notin ContinuationOps}

\* The positions at which a caller of the function resumes after a call.
ResumePoints(f) ==
    IF f = 1 THEN {1, 8} ELSE {FuncStart(2), FuncStart(2) + 13}

(***************************************************************************)
(* The executor.                                                           *)
(*                                                                         *)
(* cells, len   the value stack: its buffer and its length (truncation     *)
(*              lowers the length and leaves the buffer as it is)          *)
(* calls        the call frames, the active frame last                     *)
(* instances    the instances of the frames that changed the instance      *)
(* cache        the instance the instance cache was last loaded from       *)
(* ip, sp       instruction pointer; base offset of the register window    *)
(* outcome      what the last handler returned ("None" before the first)   *)
(* wlog         the cells the last handler wrote, in order                 *)
(* cursor       where the last walk of a continuation chain stopped        *)
(*              (0 when the last handler walked none)                      *)
(* pre          the executor as the last handler found it                  *)
(* depth0       the depth of the call stack the run began with             *)
(* outcomes     the outcomes of the returns taken so far, in order         *)
(***************************************************************************)
VARIABLES cells, len, calls, instances, cache, ip, sp, outcome, wlog, cursor, pre,
          depth0, outcomes

(***************************************************************************)
(* The values of the translator (bytecode/utils.rs).                       *)
(*                                                                         *)
(* offset       a BranchOffset                                             *)
(* offset16     a BranchOffset16                                           *)
(* aborted      an assertion failed: the process is gone                   *)
(* inits        the offsets the successful BranchOffset::init calls gave   *)
(* failed16     a BranchOffset16::init has returned an error               *)
(* call         the last call of a translator function: its name, its      *)
(*              arguments, the receiver as it found it, and its result     *)
(* fuel         a BlockFuel                                                *)
(* fuel_log     the calls made on `fuel`, each with the total it found     *)
(* cao          a ComparatorAndOffset                                      *)
(* word         the 64-bit word last encoded from `cao`                    *)
(* decoded      what ComparatorAndOffset::from_u64 last made of `word`     *)
(* reg_self     a Reg                                                      *)
(* reg_from     the index `reg_self` was made from, and the step count the *)
(*              calls on it are given                                      *)
(* reg_ops      the methods called on `reg_self`, in order                 *)
(***************************************************************************)
VARIABLES offset, offset16, aborted, inits, failed16, call,
          fuel, fuel_log, cao, word, decoded, reg_self, reg_from, reg_ops

regvars == <<reg_self, reg_from, reg_ops>>

execvars ==
    <<cells, len, calls, instances, cache, ip, sp, outcome, wlog, cursor, pre,
      depth0, outcomes>>

branchvars == <<offset, offset16, aborted, inits, failed16>>

fuelvars == <<fuel, fuel_log>>

cmpvars == <<cao, word, decoded>>

vars == <<execvars, branchvars, call, fuelvars, cmpvars, regvars>>

\* Cells of the value stack buffer.
Capacity == RootResults + MaxDepth * (ConstsF2 + WindowRegs)

Cur ==
    [cells |-> cells, len |-> len, calls |-> calls, instances |-> instances,
     cache |-> cache, ip |-> ip, sp |-> sp, outcome |-> outcome,
     wlog |-> wlog, cursor |-> cursor]

\* CallFrame
CallFrame(instr_ptr, frame_offset, base_offset, results, changed_instance) ==
    [instr_ptr |-> instr_ptr, frame_offset |-> frame_offset,
     base_offset |-> base_offset, results |-> results,
     changed_instance |-> changed_instance]

\* CallStack::peek
peek(s) == s.calls[Len(s.calls)]

\* CallStack::instance
instance(s) == s.instances[Len(s.instances)]

\* Executor::get_register: reads the cell `reg` of the active window.
get_register(s, reg) == s.cells[s.sp + reg]

\* FrameRegisters::set: writes the cell `reg` of the window at `dst_sp`.
set(s, dst_sp, reg, value) ==
    [s EXCEPT !.cells = [@ EXCEPT ![dst_sp + reg] = value],
              !.wlog = Append(@, dst_sp + reg)]

\* Executor::init_call_frame_impl
init_call_frame_impl(s, caller) ==
    [s EXCEPT !.sp = caller.base_offset, !.ip = caller.instr_ptr]

\* Mutant of truncate: the value stack is cut at the base offset.
truncate_at_base_offset(s, returned) == [s EXCEPT !.len = returned.base_offset]

\* The truncation of the value stack in Executor::return_impl.
truncate(s, returned) == [s EXCEPT !.len = returned.frame_offset]

\* Mutant of return_impl: the frame of the caller is not made the active one.
return_impl_without_init(s) ==
    LET returned == peek(s)
        popped   == [s EXCEPT !.calls = SubSeq(@, 1, Len(@) - 1),
                              !.instances = IF returned.changed_instance
                                            THEN SubSeq(@, 1, Len(@) - 1)
                                            ELSE @]
        cut      == truncate(popped, returned)
    IN  [cut EXCEPT !.outcome = IF cut.calls # <<>> THEN "Wasm" ELSE "Host"]

\* Mutant of return_impl: the frame is peeked at, not popped.
return_impl_keep_frame(s) ==
    IF s.calls = <<>> THEN [s EXCEPT !.outcome = "Panic"]
    ELSE
    LET returned == peek(s)
        cut      == truncate(s, returned)
    IN  [init_call_frame_impl(cut, peek(cut)) EXCEPT !.outcome = "Wasm"]

\* Mutant of return_impl: the instance cache is not updated.
return_impl_stale_cache(s) ==
    IF s.calls = <<>> THEN [s EXCEPT !.outcome = "Panic"]
    ELSE
    LET returned == peek(s)
        popped   == [s EXCEPT !.calls = SubSeq(@, 1, Len(@) - 1),
                              !.instances = IF returned.changed_instance
                                            THEN SubSeq(@, 1, Len(@) - 1)
                                            ELSE @]
        cut      == truncate(popped, returned)
    IN  IF cut.calls # <<>>
        THEN [init_call_frame_impl(cut, peek(cut)) EXCEPT !.outcome = "Wasm"]
        ELSE [cut EXCEPT !.outcome = "Host"]

\* Mutant of return_impl: an empty call stack is taken for the return of
\* the root.
return_impl_or_host(s) ==
    IF s.calls = <<>> THEN [s EXCEPT !.outcome = "Host"]
    ELSE
    LET returned == peek(s)
        popped   == [s EXCEPT !.calls = SubSeq(@, 1, Len(@) - 1),
                              !.instances = IF returned.changed_instance
                                            THEN SubSeq(@, 1, Len(@) - 1)
                                            ELSE @]
        cut      == truncate(popped, returned)
        updated  == IF returned.changed_instance /\ cut.instances # <<>>
                    THEN [cut EXCEPT !.cache = instance(cut)]
                    ELSE cut
    IN  IF updated.calls # <<>>
        THEN [init_call_frame_impl(updated, peek(updated)) EXCEPT !.outcome = "Wasm"]
        ELSE [updated EXCEPT !.outcome = "Host"]

\* Executor::return_impl: `Panic` when the pop finds no frame.
return_impl(s) ==
    IF s.calls = <<>> THEN [s EXCEPT !.outcome = "Panic"]
    ELSE
    LET returned == peek(s)
        popped   == [s EXCEPT !.calls = SubSeq(@, 1, Len(@) - 1),
                              !.instances = IF returned.changed_instance
                                            THEN SubSeq(@, 1, Len(@) - 1)
                                            ELSE @]
        cut      == truncate(popped, returned)
        updated  == IF returned.changed_instance /\ cut.instances # <<>>
                    THEN [cut EXCEPT !.cache = instance(cut)]
                    ELSE cut
    IN  IF updated.calls # <<>>
        THEN [init_call_frame_impl(updated, peek(updated)) EXCEPT !.outcome = "Wasm"]
        ELSE [updated EXCEPT !.outcome = "Host"]

\* Executor::execute_return
execute_return(s) == return_impl(s)

\* Mutant of return_caller_results: the results always go to the root
\* window.
return_caller_results_at_root(s) ==
    IF s.calls = <<>> THEN [panic |-> TRUE, caller_sp |-> 0, results |-> 0]
    ELSE [panic |-> FALSE, caller_sp |-> 0, results |-> 0]

\* Mutant of return_caller_results: the window of the returning frame is
\* taken for the window of its caller.
return_callee_results(s) ==
    IF s.calls = <<>> THEN [panic |-> TRUE, caller_sp |-> 0, results |-> 0]
    ELSE IF Len(s.calls) >= 2
    THEN [panic |-> FALSE, caller_sp |-> peek(s).base_offset,
          results |-> peek(s).results]
    ELSE [panic |-> FALSE, caller_sp |-> 0, results |-> 0]

\* Executor::return_caller_results: `panic` when peek_2 finds no callee.
return_caller_results(s) ==
    IF s.calls = <<>> THEN [panic |-> TRUE, caller_sp |-> 0, results |-> 0]
    ELSE IF Len(s.calls) >= 2
    THEN [panic |-> FALSE, caller_sp |-> s.calls[Len(s.calls) - 1].base_offset,
          results |-> peek(s).results]
    ELSE [panic |-> FALSE, caller_sp |-> 0, results |-> 0]

\* Mutant of execute_return_value: the value is not stored.
execute_return_value_unstored(s, value) == return_impl(s)

\* Executor::execute_return_value
execute_return_value(s, value) ==
    LET dst == return_caller_results(s)
    IN  IF dst.panic THEN [s EXCEPT !.outcome = "Panic"]
        ELSE return_impl(set(s, dst.caller_sp, dst.results, value))

\* Executor::execute_return_reg
execute_return_reg(s, value) == execute_return_value(s, get_register(s, value))

\* Mutant of copy_zip: the result register is not advanced.
RECURSIVE copy_zip_same_result(_, _, _, _)
copy_zip_same_result(s, caller_sp, result, values) ==
    IF values = <<>> THEN s
    ELSE copy_zip_same_result(set(s, caller_sp, result, get_register(s, Head(values))),
                              caller_sp, result, Tail(values))

\* Mutant of copy_zip: the values are stored in the window of the
\* returning frame.
RECURSIVE copy_zip_own_window(_, _, _, _)
copy_zip_own_window(s, caller_sp, result, values) ==
    IF values = <<>> THEN s
    ELSE copy_zip_own_window(set(s, s.sp, result, get_register(s, Head(values))),
                             caller_sp, next(result), Tail(values))

\* The loop of execute_return_reg_n_impl and of execute_return_span: the
\* registers `values` are read one after the other, each stored at `result`
\* before the next is read.
RECURSIVE copy_zip(_, _, _, _)
copy_zip(s, caller_sp, result, values) ==
    IF values = <<>> THEN s
    ELSE copy_zip(set(s, caller_sp, result, get_register(s, Head(values))),
                  caller_sp, next(result), Tail(values))

\* Executor::execute_return_reg_n_impl
execute_return_reg_n_impl(s, values) ==
    LET dst == return_caller_results(s)
    IN  IF dst.panic THEN [s EXCEPT !.outcome = "Panic"]
        ELSE return_impl(copy_zip(s, dst.caller_sp, dst.results, values))

\* Executor::execute_return_reg2
execute_return_reg2(s, values) == execute_return_reg_n_impl(s, values)

\* Executor::execute_return_reg3
execute_return_reg3(s, values) == execute_return_reg_n_impl(s, values)

\* Executor::execute_return_imm32
execute_return_imm32(s, value) == execute_return_value(s, FromImm32(value))

\* Executor::execute_return_i64imm32
execute_return_i64imm32(s, value) == execute_return_value(s, FromI64Imm32(value))

\* Executor::execute_return_f64imm32
execute_return_f64imm32(s, value) == execute_return_value(s, FromF64Imm32(value))

\* The registers of a BoundedRegSpan, in iteration order.
span_regs(head, n) == [i \in 1..n |-> next_n(head, i - 1)]

\* Executor::execute_return_span
execute_return_span(s, head, n) ==
    LET dst == return_caller_results(s)
    IN  IF dst.panic THEN [s EXCEPT !.outcome = "Panic"]
        ELSE return_impl(copy_zip(s, dst.caller_sp, dst.results, span_regs(head, n)))

\* InstructionPtr::add(1)
ip_add_1(s) == [s EXCEPT !.ip = @ + 1]

\* Mutant of copy_continuation: the walk steps past the terminal.
RECURSIVE copy_continuation_past_terminal(_, _, _, _)
copy_continuation_past_terminal(s, caller_sp, result, p) ==
    LET instr == InstrAt(p)
    IN  IF instr.op = "RegisterList"
        THEN copy_continuation_past_terminal(
                 copy_zip(s, caller_sp, result, instr.regs),
                 caller_sp, next_n(result, Len(instr.regs)), p + 1)
        ELSE IF instr.op \in {"Register", "Register2", "Register3"}
        THEN [copy_zip(s, caller_sp, result, instr.regs) EXCEPT !.cursor = p + 1]
        ELSE [s EXCEPT !.cursor = p, !.outcome = "Panic"]

\* The walk of the continuation operands in copy_many_return_values, from
\* position p on: every RegisterList is copied and passed, then the
\* terminal is copied; the walk stops at the terminal.
RECURSIVE copy_continuation(_, _, _, _)
copy_continuation(s, caller_sp, result, p) ==
    LET instr == InstrAt(p)
    IN  IF instr.op = "RegisterList"
        THEN copy_continuation(copy_zip(s, caller_sp, result, instr.regs),
                               caller_sp, next_n(result, Len(instr.regs)), p + 1)
        ELSE IF instr.op \in {"Register", "Register2", "Register3"}
        THEN [copy_zip(s, caller_sp, result, instr.regs) EXCEPT !.cursor = p]
        ELSE [s EXCEPT !.cursor = p, !.outcome = "Panic"]

\* Mutant of copy_many_return_values: the result register is not carried
\* over from the inline registers to the continuation operands.
copy_many_return_values_from_head(s, p, values) ==
    LET dst == return_caller_results(s)
    IN  IF dst.panic THEN [s EXCEPT !.outcome = "Panic"]
        ELSE copy_continuation(copy_zip(s, dst.caller_sp, dst.results, values),
                               dst.caller_sp, dst.results, p)

\* Executor::copy_many_return_values: `p` is the position handed over by
\* value; the executor's own instruction pointer is not touched.
copy_many_return_values(s, p, values) ==
    LET dst == return_caller_results(s)
    IN  IF dst.panic THEN [s EXCEPT !.outcome = "Panic"]
        ELSE copy_continuation(copy_zip(s, dst.caller_sp, dst.results, values),
                               dst.caller_sp, next_n(dst.results, Len(values)), p)

\* Executor::execute_return_many
execute_return_many(s, values) ==
    LET at     == ip_add_1(s)
        copied == copy_many_return_values(at, at.ip, values)
    IN  IF copied.outcome = "Panic" THEN copied ELSE return_impl(copied)

\* Executor::next_instr
next_instr(s) == ip_add_1(s)

\* Mutant of execute_return_nez_impl: the false branch does not advance.
execute_return_nez_impl_stay(s, condition, taken) ==
    IF ToBool(get_register(s, condition))
    THEN taken
    ELSE [s EXCEPT !.outcome = "Wasm"]

\* Mutant of execute_return_nez_impl: the instruction pointer is advanced
\* on both branches.
execute_return_nez_impl_advance(s, condition, taken) ==
    IF ToBool(get_register(s, condition))
    THEN next_instr(taken)
    ELSE [next_instr(s) EXCEPT !.outcome = "Wasm"]

\* Executor::execute_return_nez_impl: `taken` is what the unconditional
\* handler f makes of s.
execute_return_nez_impl(s, condition, taken) ==
    IF ToBool(get_register(s, condition))
    THEN taken
    ELSE [next_instr(s) EXCEPT !.outcome = "Wasm"]

\* Executor::execute_return_nez
execute_return_nez(s, condition) ==
    execute_return_nez_impl(s, condition, execute_return(s))

\* Executor::execute_return_nez_reg
execute_return_nez_reg(s, condition, value) ==
    execute_return_nez_impl(s, condition, execute_return_reg(s, value))

\* Executor::execute_return_nez_reg2
execute_return_nez_reg2(s, condition, value) ==
    execute_return_nez_impl(s, condition, execute_return_reg2(s, value))

\* Executor::execute_return_nez_imm32
execute_return_nez_imm32(s, condition, value) ==
    execute_return_nez_impl(s, condition, execute_return_imm32(s, value))

\* Executor::execute_return_nez_i64imm32
execute_return_nez_i64imm32(s, condition, value) ==
    execute_return_nez_impl(s, condition, execute_return_i64imm32(s, value))

\* Executor::execute_return_nez_f64imm32
execute_return_nez_f64imm32(s, condition, value) ==
    execute_return_nez_impl(s, condition, execute_return_f64imm32(s, value))

\* Executor::execute_return_nez_span
execute_return_nez_span(s, condition, head, n) ==
    execute_return_nez_impl(s, condition, execute_return_span(s, head, n))

\* Executor::skip_register_list: passes every RegisterList from p on and
\* the one instruction after them.
RECURSIVE skip_register_list(_)
skip_register_list(p) ==
    IF InstrAt(p).op = "RegisterList" THEN skip_register_list(p + 1) ELSE p + 1

\* Mutant of execute_return_nez_many: the chain is skipped from the return
\* instruction itself.
execute_return_nez_many_skip_early(s, condition, values) ==
    LET cond == get_register(s, condition)
        at   == ip_add_1(s)
    IN  IF ToBool(cond)
        THEN LET copied == copy_many_return_values(at, at.ip, values)
             IN  IF copied.outcome = "Panic" THEN copied ELSE return_impl(copied)
        ELSE [s EXCEPT !.ip = skip_register_list(s.ip), !.outcome = "Wasm"]

\* Executor::execute_return_nez_many
execute_return_nez_many(s, condition, values) ==
    LET cond == get_register(s, condition)
        at   == ip_add_1(s)
    IN  IF ToBool(cond)
        THEN LET copied == copy_many_return_values(at, at.ip, values)
             IN  IF copied.outcome = "Panic" THEN copied ELSE return_impl(copied)
        ELSE [at EXCEPT !.ip = skip_register_list(at.ip), !.outcome = "Wasm"]

(***************************************************************************)
(* Initial states: a call stack of 1 .. MaxDepth frames as the call path   *)
(* leaves it.  The results of the root are reserved at the base of the     *)
(* value stack; every frame starts where its caller's registers end, its   *)
(* constants first and its registers from base_offset on; the result span  *)
(* of a frame lies in the registers of its caller.                         *)
(***************************************************************************)
\* The translator's values while the executor runs: none is in use.
BranchIdle ==
    /\ offset = 0
    /\ offset16 = 0
    /\ aborted = FALSE
    /\ inits = <<>>
    /\ failed16 = FALSE

FuelIdle == fuel = <<0, 0>> /\ fuel_log = <<>>

CmpIdle ==
    /\ cao = [cmp |-> 0, offset |-> 0]
    /\ word = <<>>
    /\ decoded = [kind |-> "NotCalled"]

RegIdle == reg_self = 0 /\ reg_from = [index |-> 0, n |-> 0] /\ reg_ops = <<>>

TranslatorIdle ==
    BranchIdle /\ FuelIdle /\ CmpIdle /\ RegIdle /\ call = [fn |-> "none"]

RECURSIVE FrameOffsetOf(_, _)
FrameOffsetOf(fs, i) ==
    IF i = 1 THEN RootResults
    ELSE FrameOffsetOf(fs, i - 1) + FuncConsts(fs[i - 1]) + WindowRegs

BaseOffsetOf(fs, i) == FrameOffsetOf(fs, i) + FuncConsts(fs[i])

\* CallStack::push_instance: a frame changes the instance when its instance
\* is not the one on top.
ChangedInstance(fs, i) == i = 1 \/ FuncInstance(fs[i]) # FuncInstance(fs[i - 1])

RECURSIVE InstancesOf(_, _)
InstancesOf(fs, i) ==
    IF i = 0 THEN <<>>
    ELSE IF ChangedInstance(fs, i)
         THEN Append(InstancesOf(fs, i - 1), FuncInstance(fs[i]))
         ELSE InstancesOf(fs, i - 1)

\* The value stack of the layout: every cell holds its own token, and
\* register 1 of the frames in `zs` holds zero.
InitCells(fs, zs) ==
    [a \in 0..(Capacity - 1) |->
        IF \E i \in DOMAIN fs : zs[i] /\ a = BaseOffsetOf(fs, i) + 1
        THEN ZeroVal ELSE Token(a)]

InitCalls(fs, heads, rs) ==
    [i \in DOMAIN fs |->
        CallFrame(IF i = Len(fs) THEN FuncStart(fs[i]) ELSE rs[i],
                  FrameOffsetOf(fs, i), BaseOffsetOf(fs, i),
                  IF i = 1 THEN 0 ELSE heads[i],
                  ChangedInstance(fs, i))]

Init ==
    \E d \in 1..MaxDepth :
      \E fs \in [1..d -> Funcs], heads \in [1..d -> 0..MaxHead],
         zs \in [1..d -> BOOLEAN], rs \in [1..d -> 1..Len(Program)] :
        /\ heads[1] = 0
        /\ \A i \in 1..d :
              rs[i] \in (IF i = d THEN DispatchPoints(fs[i]) ELSE ResumePoints(fs[i]))
        /\ calls = InitCalls(fs, heads, rs)
        /\ cells = InitCells(fs, zs)
        /\ len = BaseOffsetOf(fs, d) + WindowRegs
        /\ instances = InstancesOf(fs, d)
        /\ cache = FuncInstance(fs[d])
        /\ ip = rs[d]
        /\ sp = BaseOffsetOf(fs, d)
        /\ outcome = "None"
        /\ wlog = <<>>
        /\ cursor = 0
        /\ pre = Cur
        /\ depth0 = d
        /\ outcomes = <<>>
        /\ TranslatorIdle

(***************************************************************************)
(* The dispatch loop: it runs while the last handler did not return to the *)
(* host, and hands the instruction at `ip` to its handler.  The bytecode   *)
(* passed translation: the values an instruction returns fit the result    *)
(* span they are returned to.                                              *)
(***************************************************************************)
\* The registers of a continuation chain from position p on, in stream order.
RECURSIVE ChainRegs(_)
ChainRegs(p) ==
    LET instr == InstrAt(p)
    IN  IF instr.op = "RegisterList" THEN instr.regs \o ChainRegs(p + 1)
        ELSE IF instr.op \in {"Register", "Register2", "Register3"} THEN instr.regs
        ELSE <<>>

\* The number of values the return instruction at p returns.
ReturnCount(p) ==
    LET instr == InstrAt(p)
    IN  IF instr.op \in {"ReturnSpan", "ReturnNezSpan"} THEN instr.len
        ELSE IF instr.op \in {"ReturnMany", "ReturnNezMany"}
             THEN Len(instr.regs) + Len(ChainRegs(p + 1))
        ELSE IF instr.op \in {"ReturnImm32", "ReturnI64Imm32", "ReturnF64Imm32",
                              "ReturnNezImm32", "ReturnNezI64Imm32",
                              "ReturnNezF64Imm32"} THEN 1
        ELSE Len(instr.regs)

\* The result span of the active frame holds k values: in the registers of
\* the caller, or in the cells reserved for the root's results.
ResultsFit(k) ==
    LET n == Len(calls)
    IN  IF n >= 2
        THEN calls[n - 1].base_offset + calls[n].results + k <= calls[n].frame_offset
        ELSE k <= calls[n].frame_offset

Dispatch(op) ==
    /\ outcome \in {"None", "Wasm"}
    /\ calls # <<>>
    /\ InstrAt(ip).op = op
    /\ ResultsFit(ReturnCount(ip))

\* The executor as a handler finds it.
Begin == [Cur EXCEPT !.outcome = "None", !.wlog = <<>>, !.cursor = 0]

\* The handler given the executor b goes on to return: the instruction is
\* an unconditional return, or a conditional one whose condition is not zero.
TakenBy(b) ==
    \/ InstrAt(b.ip).op \in UnconditionalOps
    \/ /\ InstrAt(b.ip).op \in ConditionalOps
       /\ ToBool(get_register(b, InstrAt(b.ip).condition))

\* The handler makes s of the executor it found as b.
StepFrom(b, s) ==
    /\ cells' = s.cells
    /\ len' = s.len
    /\ calls' = s.calls
    /\ instances' = s.instances
    /\ cache' = s.cache
    /\ ip' = s.ip
    /\ sp' = s.sp
    /\ outcome' = s.outcome
    /\ wlog' = s.wlog
    /\ cursor' = s.cursor
    /\ pre' = b
    /\ depth0' = depth0
    /\ outcomes' = IF TakenBy(b) THEN Append(outcomes, s.outcome) ELSE outcomes
    /\ UNCHANGED <<branchvars, call, fuelvars, cmpvars, regvars>>

Step(s) == StepFrom(Begin, s)

Return == Dispatch("Return") /\ Step(execute_return(Begin))

ReturnReg ==
    Dispatch("ReturnReg") /\ Step(execute_return_reg(Begin, InstrAt(ip).regs[1]))

ReturnReg2 ==
    Dispatch("ReturnReg2") /\ Step(execute_return_reg2(Begin, InstrAt(ip).regs))

ReturnReg3 ==
    Dispatch("ReturnReg3") /\ Step(execute_return_reg3(Begin, InstrAt(ip).regs))

ReturnImm32 ==
    Dispatch("ReturnImm32") /\ Step(execute_return_imm32(Begin, InstrAt(ip).imm))

ReturnI64Imm32 ==
    Dispatch("ReturnI64Imm32") /\ Step(execute_return_i64imm32(Begin, InstrAt(ip).imm))

ReturnF64Imm32 ==
    Dispatch("ReturnF64Imm32") /\ Step(execute_return_f64imm32(Begin, InstrAt(ip).imm))

ReturnSpan ==
    /\ Dispatch("ReturnSpan")
    /\ Step(execute_return_span(Begin, InstrAt(ip).regs[1], InstrAt(ip).len))

ReturnMany ==
    Dispatch("ReturnMany") /\ Step(execute_return_many(Begin, InstrAt(ip).regs))

ReturnNez ==
    Dispatch("ReturnNez") /\ Step(execute_return_nez(Begin, InstrAt(ip).condition))

ReturnNezReg ==
    /\ Dispatch("ReturnNezReg")
    /\ Step(execute_return_nez_reg(Begin, InstrAt(ip).condition, InstrAt(ip).regs[1]))

ReturnNezReg2 ==
    /\ Dispatch("ReturnNezReg2")
    /\ Step(execute_return_nez_reg2(Begin, InstrAt(ip).condition, InstrAt(ip).regs))

ReturnNezImm32 ==
    /\ Dispatch("ReturnNezImm32")
    /\ Step(execute_return_nez_imm32(Begin, InstrAt(ip).condition, InstrAt(ip).imm))

ReturnNezI64Imm32 ==
    /\ Dispatch("ReturnNezI64Imm32")
    /\ Step(execute_return_nez_i64imm32(Begin, InstrAt(ip).condition, InstrAt(ip).imm))

ReturnNezF64Imm32 ==
    /\ Dispatch("ReturnNezF64Imm32")
    /\ Step(execute_return_nez_f64imm32(Begin, InstrAt(ip).condition, InstrAt(ip).imm))

ReturnNezSpan ==
    /\ Dispatch("ReturnNezSpan")
    /\ Step(execute_return_nez_span(Begin, InstrAt(ip).condition,
                                    InstrAt(ip).regs[1], InstrAt(ip).len))

ReturnNezMany ==
    /\ Dispatch("ReturnNezMany")
    /\ Step(execute_return_nez_many(Begin, InstrAt(ip).condition, InstrAt(ip).regs))

Next ==
    \/ Return
    \/ ReturnReg
    \/ ReturnReg2
    \/ ReturnReg3
    \/ ReturnImm32
    \/ ReturnI64Imm32
    \/ ReturnF64Imm32
    \/ ReturnSpan
    \/ ReturnMany
    \/ ReturnNez
    \/ ReturnNezReg
    \/ ReturnNezReg2
    \/ ReturnNezImm32
    \/ ReturnNezI64Imm32
    \/ ReturnNezF64Imm32
    \/ ReturnNezSpan
    \/ ReturnNezMany

Spec == Init /\ [][Next]_vars

(***************************************************************************)
(* The handlers outside the dispatch loop's discipline: a driver that,     *)
(* after the root has returned to the host and the call stack is empty,    *)
(* hands a return instruction to its handler once more.                    *)
(***************************************************************************)
\* The handler of the return instruction `instr`, applied to s.
Execute(s, instr) ==
    CASE instr.op = "Return" -> execute_return(s)
      [] instr.op = "ReturnReg" -> execute_return_reg(s, instr.regs[1])
      [] instr.op = "ReturnReg2" -> execute_return_reg2(s, instr.regs)
      [] instr.op = "ReturnReg3" -> execute_return_reg3(s, instr.regs)
      [] instr.op = "ReturnImm32" -> execute_return_imm32(s, instr.imm)
      [] instr.op = "ReturnI64Imm32" -> execute_return_i64imm32(s, instr.imm)
      [] instr.op = "ReturnF64Imm32" -> execute_return_f64imm32(s, instr.imm)
      [] instr.op = "ReturnSpan" -> execute_return_span(s, instr.regs[1], instr.len)
      [] instr.op = "ReturnMany" -> execute_return_many(s, instr.regs)
      [] instr.op = "ReturnNez" -> execute_return_nez(s, instr.condition)
      [] instr.op = "ReturnNezReg" ->
            execute_return_nez_reg(s, instr.condition, instr.regs[1])
      [] instr.op = "ReturnNezReg2" ->
            execute_return_nez_reg2(s, instr.condition, instr.regs)
      [] instr.op = "ReturnNezImm32" ->
            execute_return_nez_imm32(s, instr.condition, instr.imm)
      [] instr.op = "ReturnNezI64Imm32" ->
            execute_return_nez_i64imm32(s, instr.condition, instr.imm)
      [] instr.op = "ReturnNezF64Imm32" ->
            execute_return_nez_f64imm32(s, instr.condition, instr.imm)
      [] instr.op = "ReturnNezSpan" ->
            execute_return_nez_span(s, instr.condition, instr.regs[1], instr.len)
      [] instr.op = "ReturnNezMany" ->
            execute_return_nez_many(s, instr.condition, instr.regs)

\* A return instruction of the program is executed on the empty call stack.
ReturnOnEmptyStack ==
    /\ outcome = "Host"
    /\ calls = <<>>
    /\ \E f \in Funcs : \E p \in DispatchPoints(f) :
          LET found == [Begin EXCEPT !.ip = p]
          IN  StepFrom(found, Execute(found, InstrAt(p)))

NextEmptyStack == Next \/ ReturnOnEmptyStack

SpecEmptyStack == Init /\ [][NextEmptyStack]_vars

(***************************************************************************)
(* The executor while the translator's values are exercised: no frame, no  *)
(* value, no handler.                                                      *)
(***************************************************************************)
ExecutorIdle ==
    /\ cells = <<>>
    /\ len = 0
    /\ calls = <<>>
    /\ instances = <<>>
    /\ cache = 0
    /\ ip = 1
    /\ sp = 0
    /\ outcome = "None"
    /\ wlog = <<>>
    /\ cursor = 0
    /\ pre = Cur
    /\ depth0 = 0
    /\ outcomes = <<>>

(***************************************************************************)
(* Branch offsets.  A BranchOffset is its i32, a BranchOffset16 its i16;   *)
(* an instruction index (u32) is two 16-bit limbs <<hi, lo>>, and the i64  *)
(* difference of two of them is [hi, lo] with 0 <= lo < Limb, worth        *)
(* hi * Limb + lo.  A result is [kind, value, err]: kind is "Ok", "Err"    *)
(* (a recoverable Error) or "Panic"; the methods on &mut self also give    *)
(* `self`, the receiver as they leave it.                                  *)
(***************************************************************************)
I16Min == -(2 ^ 15)

I16Max == 2 ^ 15 - 1

I32Min == (-(2 ^ 30)) * 2

I32Max == (2 ^ 30 - 1) * 2 + 1

\* The offsets the calls are given.
OffsetSamples ==
    {I32Min, -40000, I16Min - 1, I16Min, -1, 0, 1, 4, I16Max, I16Max + 1,
     40000, I32Max}

\* The instruction indices the calls are given.
InstrSamples ==
    {<<0, 0>>, <<0, 10>>, <<0, 14>>, <<0, 100>>, <<1, 0>>, <<2 ^ 15, 0>>,
     <<2 ^ 15, 14>>, <<Limb - 1, Limb - 1>>}

\* i16::try_from(i32)
i16_try_from(x) ==
    IF I16Min <= x /\ x <= I16Max
    THEN [ok |-> TRUE, value |-> WrapI16(x)]
    ELSE [ok |-> FALSE, value |-> 0]

\* i64::from(u32), and i64::checked_sub on two such values: the difference
\* of two values of 0 .. 2^32 - 1 is an i64, so the result is always Some.
checked_sub(dst, src) ==
    LET hi == dst[1] - src[1]
        lo == dst[2] - src[2]
    IN  [some |-> TRUE,
         hi |-> IF lo < 0 THEN hi - 1 ELSE hi,
         lo |-> IF lo < 0 THEN lo + Limb ELSE lo]

\* i32::try_from(i64)
i32_try_from(x) ==
    IF -(2 ^ 15) <= x.hi /\ x.hi <= 2 ^ 15 - 1
    THEN [ok |-> TRUE, value |-> x.hi * Limb + x.lo]
    ELSE [ok |-> FALSE, value |-> 0]

\* BranchOffset::uninit
uninit == 0

\* BranchOffset::to_i32
to_i32(self) == self

\* BranchOffset::is_init
is_init(self) == to_i32(self) # 0

\* BranchOffset::from_src_to_dst
from_src_to_dst(src, dst) ==
    LET diff == checked_sub(dst, src)
    IN  IF ~diff.some
        THEN [kind |-> "Panic", value |-> 0, err |-> "none"]
        ELSE LET off == i32_try_from(diff)
             IN  IF ~off.ok
                 THEN [kind |-> "Err", value |-> 0, err |-> "BranchOffsetOutOfBounds"]
                 ELSE [kind |-> "Ok", value |-> off.value, err |-> "none"]

\* Mutant of BranchOffset_init: the receiver is not asserted uninitialized.
BranchOffset_init_again(self, valid_offset) ==
    IF ~is_init(valid_offset)
    THEN [kind |-> "Panic", self |-> self]
    ELSE [kind |-> "Ok", self |-> valid_offset]

\* BranchOffset::init
BranchOffset_init(self, valid_offset) ==
    IF ~is_init(valid_offset)
    THEN [kind |-> "Panic", self |-> self]
    ELSE IF is_init(self)
    THEN [kind |-> "Panic", self |-> self]
    ELSE [kind |-> "Ok", self |-> valid_offset]

\* BranchOffset16::to_i16
to_i16(self) == self

\* BranchOffset16::is_init
BranchOffset16_is_init(self) == to_i16(self) # 0

\* BranchOffset16::try_from(BranchOffset)
BranchOffset16_try_from(off) ==
    LET narrowed == i16_try_from(to_i32(off))
    IN  IF ~narrowed.ok
        THEN [kind |-> "Err", value |-> 0, err |-> "BranchOffsetOutOfBounds"]
        ELSE [kind |-> "Ok", value |-> narrowed.value, err |-> "none"]

\* Mutant of BranchOffset16_init: the receiver takes the low 16 bits of the
\* offset before the range is checked.
BranchOffset16_init_truncating(self, valid_offset) ==
    IF ~is_init(valid_offset)
    THEN [kind |-> "Panic", self |-> self, err |-> "none"]
    ELSE IF BranchOffset16_is_init(self)
    THEN [kind |-> "Panic", self |-> self, err |-> "none"]
    ELSE LET valid_offset16 == BranchOffset16_try_from(valid_offset)
         IN  [kind |-> valid_offset16.kind, self |-> WrapI16(to_i32(valid_offset)),
              err |-> valid_offset16.err]

\* BranchOffset16::init
BranchOffset16_init(self, valid_offset) ==
    IF ~is_init(valid_offset)
    THEN [kind |-> "Panic", self |-> self, err |-> "none"]
    ELSE IF BranchOffset16_is_init(self)
    THEN [kind |-> "Panic", self |-> self, err |-> "none"]
    ELSE LET valid_offset16 == BranchOffset16_try_from(valid_offset)
         IN  IF valid_offset16.kind = "Err"
             THEN [kind |-> "Err", self |-> self, err |-> valid_offset16.err]
             ELSE [kind |-> "Ok", self |-> valid_offset16.value, err |-> "none"]

InitBranch ==
    /\ ExecutorIdle
    /\ RegIdle
    /\ FuelIdle
    /\ CmpIdle
    /\ call = [fn |-> "none"]
    /\ offset = uninit
    /\ offset16 = 0
    /\ aborted = FALSE
    /\ inits = <<>>
    /\ failed16 = FALSE

\* offset.init(valid_offset)
BranchOffsetInit ==
    /\ ~aborted
    /\ \E valid_offset \in OffsetSamples :
          LET r == BranchOffset_init(offset, valid_offset)
          IN  /\ offset' = r.self
              /\ aborted' = (r.kind = "Panic")
              /\ inits' = IF r.kind = "Ok" THEN Append(inits, valid_offset) ELSE inits
              /\ call' = [fn |-> "BranchOffset::init", arg |-> valid_offset,
                          found |-> offset, kind |-> r.kind]
    /\ UNCHANGED <<execvars, regvars, offset16, failed16, fuelvars, cmpvars>>

\* offset16.init(valid_offset)
BranchOffset16Init ==
    /\ ~aborted
    /\ \E valid_offset \in OffsetSamples :
          LET r == BranchOffset16_init(offset16, valid_offset)
          IN  /\ offset16' = r.self
              /\ aborted' = (r.kind = "Panic")
              /\ failed16' = (failed16 \/ r.kind = "Err")
              /\ call' = [fn |-> "BranchOffset16::init", arg |-> valid_offset,
                          found |-> offset16, kind |-> r.kind, err |-> r.err]
    /\ UNCHANGED <<execvars, regvars, offset, inits, fuelvars, cmpvars>>

\* BranchOffset16::try_from(off)
BranchOffset16TryFrom ==
    /\ ~aborted
    /\ \E off \in OffsetSamples :
          LET r == BranchOffset16_try_from(off)
          IN  call' = [fn |-> "BranchOffset16::try_from", arg |-> off,
                       kind |-> r.kind, value |-> r.value, err |-> r.err]
    /\ UNCHANGED <<execvars, regvars, branchvars, fuelvars, cmpvars>>

\* BranchOffset::from_src_to_dst(src, dst)
FromSrcToDst ==
    /\ ~aborted
    /\ \E src \in InstrSamples, dst \in InstrSamples :
          LET r == from_src_to_dst(src, dst)
          IN  /\ call' = [fn |-> "BranchOffset::from_src_to_dst", src |-> src,
                          dst |-> dst, kind |-> r.kind, value |-> r.value,
                          err |-> r.err]
              /\ aborted' = (r.kind = "Panic")
    /\ UNCHANGED <<execvars, regvars, offset, offset16, inits, failed16, fuelvars, cmpvars>>

NextBranch ==
    \/ BranchOffsetInit
    \/ BranchOffset16Init
    \/ BranchOffset16TryFrom
    \/ FromSrcToDst

SpecBranch == InitBranch /\ [][NextBranch]_vars

(***************************************************************************)
(* ComparatorAndOffset.  A Comparator is its discriminant; a u64 is four   *)
(* 16-bit limbs <<l3, l2, l1, l0>>, a u32 two.                             *)
(***************************************************************************)
I32Eq == 0

F64Ge == 37

\* The discriminants of Comparator.
Comparator == I32Eq..F64Ge

\* Bitwise AND of two numbers below 2^n.
RECURSIVE BitAnd(_, _, _)
BitAnd(a, b, n) ==
    IF n = 0 THEN 0
    ELSE 2 * BitAnd(a \div 2, b \div 2, n - 1) + (a % 2) * (b % 2)

\* Bitwise OR of two numbers below 2^n.
RECURSIVE BitOr(_, _, _)
BitOr(a, b, n) ==
    IF n = 0 THEN 0
    ELSE 2 * BitOr(a \div 2, b \div 2, n - 1)
           + (IF a % 2 = 1 \/ b % 2 = 1 THEN 1 ELSE 0)

\* u64 & u64
And64(a, b) == [i \in 1..4 |-> BitAnd(a[i], b[i], 16)]

\* u64 | u64
Or64(a, b) == [i \in 1..4 |-> BitOr(a[i], b[i], 16)]

\* u64 << 32
Shl32(a) == <<a[3], a[4], 0, 0>>

\* u64 >> 32
Shr32(a) == <<0, 0, a[1], a[2]>>

\* u64 as u32
U64AsU32(a) == <<a[3], a[4]>>

\* Comparator as u64
ComparatorAsU64(cmp) == <<0, 0, 0, cmp>>

\* i32 as u32: the two's complement bits.
I32AsU32(x) ==
    IF x >= 0 THEN <<x \div Limb, x % Limb>>
    ELSE <<2 ^ 15 + (x - I32Min) \div Limb, (x - I32Min) % Limb>>

\* i32 as u64: sign-extended.
I32AsU64(x) ==
    IF x >= 0 THEN <<0, 0>> \o I32AsU32(x)
    ELSE <<Limb - 1, Limb - 1>> \o I32AsU32(x)

\* u32 as i32
U32AsI32(a) ==
    IF a[1] < 2 ^ 15 THEN a[1] * Limb + a[2]
    ELSE I32Min + ((a[1] - 2 ^ 15) * Limb + a[2])

\* Comparator::from_u32
Comparator_from_u32(a) ==
    IF a[1] = 0 /\ a[2] \in Comparator
    THEN [some |-> TRUE, cmp |-> a[2]]
    ELSE [some |-> FALSE, cmp |-> 0]

\* ComparatorAndOffset::new
new(cmp, off) == [cmp |-> cmp, offset |-> off]

\* ComparatorAndOffset::from_u64
from_u64(value) ==
    LET hi  == U64AsU32(Shr32(value))
        lo  == U64AsU32(And64(value, <<0, 0, Limb - 1, Limb - 1>>))
        cmp == Comparator_from_u32(hi)
    IN  IF ~cmp.some THEN [kind |-> "None"]
        ELSE [kind |-> "Some", cmp |-> cmp.cmp, offset |-> U32AsI32(lo)]

\* Mutant of as_u64: the offset is zero-extended.
as_u64_zero_extended(self) ==
    LET hi == ComparatorAsU64(self.cmp)
        lo == <<0, 0>> \o I32AsU32(to_i32(self.offset))
    IN  And64(Shl32(hi), lo)

\* Mutant of as_u64: the fields are joined with OR.
as_u64_or(self) ==
    LET hi == ComparatorAsU64(self.cmp)
        lo == I32AsU64(to_i32(self.offset))
    IN  Or64(Shl32(hi), lo)

\* ComparatorAndOffset::as_u64: `hi << 32 & lo` is (hi << 32) & lo.
as_u64(self) ==
    LET hi == ComparatorAsU64(self.cmp)
        lo == I32AsU64(to_i32(self.offset))
    IN  And64(Shl32(hi), lo)

InitCmp ==
    /\ ExecutorIdle
    /\ RegIdle
    /\ BranchIdle
    /\ FuelIdle
    /\ call = [fn |-> "none"]
    /\ \E cmp \in Comparator, off \in OffsetSamples : cao = new(cmp, off)
    /\ word = <<>>
    /\ decoded = [kind |-> "NotCalled"]

\* word = cao.as_u64()
AsU64 ==
    /\ word = <<>>
    /\ word' = as_u64(cao)
    /\ UNCHANGED <<execvars, regvars, branchvars, call, fuelvars, cao, decoded>>

\* decoded = ComparatorAndOffset::from_u64(word)
FromU64 ==
    /\ word # <<>>
    /\ decoded.kind = "NotCalled"
    /\ decoded' = from_u64(word)
    /\ UNCHANGED <<execvars, regvars, branchvars, call, fuelvars, cao, word>>

NextCmp == AsU64 \/ FromU64

SpecCmp == InitCmp /\ [][NextCmp]_vars

(***************************************************************************)
(* BlockFuel.  A BlockFuel is its u32, two limbs; the amounts are u64,     *)
(* four limbs.                                                             *)
(***************************************************************************)
\* Calls made on one BlockFuel.
MaxFuelCalls == 3

\* The amounts the calls are given: 0, 1, 50, 2^32 - 51, 2^32 - 1, 2^32
\* and 2^64 - 1.
U64Samples ==
    {<<0, 0, 0, 0>>, <<0, 0, 0, 1>>, <<0, 0, 0, 50>>,
     <<0, 0, Limb - 1, Limb - 51>>, <<0, 0, Limb - 1, Limb - 1>>,
     <<0, 1, 0, 0>>, <<Limb - 1, Limb - 1, Limb - 1, Limb - 1>>}

\* The sum of the limbs i .. 4 of a and b: the limbs of the sum, led by the
\* carry out of limb i.
RECURSIVE AddFrom(_, _, _)
AddFrom(a, b, i) ==
    IF i > 4 THEN <<0>>
    ELSE LET low == AddFrom(a, b, i + 1)
             sum == a[i] + b[i] + low[1]
         IN  <<sum \div Limb, sum % Limb>> \o Tail(low)

\* u64::checked_add
checked_add(a, b) ==
    LET sum == AddFrom(a, b, 1)
    IN  [some |-> sum[1] = 0, value |-> Tail(sum)]

\* u32::try_from(u64)
u32_try_from(x) ==
    IF x[1] = 0 /\ x[2] = 0
    THEN [ok |-> TRUE, value |-> <<x[3], x[4]>>]
    ELSE [ok |-> FALSE, value |-> <<0, 0>>]

\* BlockFuel::to_u64
to_u64(self) == <<0, 0>> \o self

\* impl TryFrom<u64> for BlockFuel
BlockFuel_try_from(index) ==
    LET narrowed == u32_try_from(index)
    IN  IF narrowed.ok
        THEN [kind |-> "Ok", value |-> narrowed.value, err |-> "none"]
        ELSE [kind |-> "Err", value |-> <<0, 0>>, err |-> "BlockFuelOutOfBounds"]

\* Mutant of bump_by: the low 32 bits of the sum are stored before the sum
\* is checked.
bump_by_store_first(self, amount) ==
    LET new_amount == checked_add(to_u64(self), amount)
    IN  IF ~new_amount.some
        THEN [kind |-> "Err", self |-> self, err |-> "BlockFuelOutOfBounds"]
        ELSE LET narrowed == u32_try_from(new_amount.value)
             IN  IF ~narrowed.ok
                 THEN [kind |-> "Err",
                       self |-> <<new_amount.value[3], new_amount.value[4]>>,
                       err |-> "BlockFuelOutOfBounds"]
                 ELSE [kind |-> "Ok", self |-> narrowed.value, err |-> "none"]

\* Mutant of bump_by: the sum is narrowed by wrapping.
bump_by_wrapping(self, amount) ==
    LET new_amount == checked_add(to_u64(self), amount)
    IN  IF ~new_amount.some
        THEN [kind |-> "Err", self |-> self, err |-> "BlockFuelOutOfBounds"]
        ELSE [kind |-> "Ok",
              self |-> <<new_amount.value[3], new_amount.value[4]>>,
              err |-> "none"]

\* Mutant of bump_by: the amount is stored, not added.
bump_by_set(self, amount) ==
    LET narrowed == u32_try_from(amount)
    IN  IF ~narrowed.ok
        THEN [kind |-> "Err", self |-> self, err |-> "BlockFuelOutOfBounds"]
        ELSE [kind |-> "Ok", self |-> narrowed.value, err |-> "none"]

\* BlockFuel::bump_by
bump_by(self, amount) ==
    LET new_amount == checked_add(to_u64(self), amount)
    IN  IF ~new_amount.some
        THEN [kind |-> "Err", self |-> self, err |-> "BlockFuelOutOfBounds"]
        ELSE LET narrowed == u32_try_from(new_amount.value)
             IN  IF ~narrowed.ok
                 THEN [kind |-> "Err", self |-> self, err |-> "BlockFuelOutOfBounds"]
                 ELSE [kind |-> "Ok", self |-> narrowed.value, err |-> "none"]

InitFuel ==
    /\ ExecutorIdle
    /\ RegIdle
    /\ BranchIdle
    /\ CmpIdle
    /\ call = [fn |-> "none"]
    /\ \E index \in U64Samples :
          /\ BlockFuel_try_from(index).kind = "Ok"
          /\ fuel = BlockFuel_try_from(index).value
    /\ fuel_log = <<>>

\* fuel = BlockFuel::try_from(index)?: on the error `fuel` stays.
FuelTryFrom ==
    /\ Len(fuel_log) < MaxFuelCalls
    /\ \E index \in U64Samples :
          LET r == BlockFuel_try_from(index)
          IN  /\ fuel' = IF r.kind = "Ok" THEN r.value ELSE fuel
              /\ fuel_log' = Append(fuel_log,
                     [fn |-> "try_from", found |-> fuel, amount |-> index,
                      kind |-> r.kind, err |-> r.err])
    /\ UNCHANGED <<execvars, regvars, branchvars, call, cmpvars>>

\* fuel.bump_by(amount)
FuelBumpBy ==
    /\ Len(fuel_log) < MaxFuelCalls
    /\ \E amount \in U64Samples :
          LET r == bump_by(fuel, amount)
          IN  /\ fuel' = r.self
              /\ fuel_log' = Append(fuel_log,
                     [fn |-> "bump_by", found |-> fuel, amount |-> amount,
                      kind |-> r.kind, err |-> r.err])
    /\ UNCHANGED <<execvars, regvars, branchvars, call, cmpvars>>

NextFuel == FuelTryFrom \/ FuelBumpBy

SpecFuel == InitFuel /\ [][NextFuel]_vars

(***************************************************************************)
(* Registers.  A Reg is its i16; a step count is a u16.                    *)
(***************************************************************************)
\* Calls made on one Reg.
MaxRegCalls == 2

\* The indices a Reg is made from.
RegSamples == {I16Min, I16Min + 1, -5, -1, 0, 1, 5, I16Max - 1, I16Max}

\* The step counts the calls are given.
StepSamples == {0, 1, 2, 2 ^ 15 - 1, 2 ^ 15, Limb - 1}

InitReg ==
    /\ ExecutorIdle
    /\ BranchIdle
    /\ FuelIdle
    /\ CmpIdle
    /\ call = [fn |-> "none"]
    /\ \E index \in RegSamples, n \in StepSamples :
          /\ reg_self = index
          /\ reg_from = [index |-> index, n |-> n]
    /\ reg_ops = <<>>

\* The call leaves `reg_self` as `self`.
RegCall(method, self) ==
    /\ Len(reg_ops) < MaxRegCalls
    /\ reg_self' = self
    /\ reg_ops' = Append(reg_ops, method)
    /\ UNCHANGED <<execvars, branchvars, call, fuelvars, cmpvars, reg_from>>

\* reg_self = reg_self.next_n(n)
RegNextN == RegCall("next_n", next_n(reg_self, reg_from.n))

\* reg_self = reg_self.prev_n(n)
RegPrevN == RegCall("prev_n", prev_n(reg_self, reg_from.n))

\* reg_self = reg_self.next()
RegNext == RegCall("next", next(reg_self))

\* reg_self = reg_self.prev()
RegPrev == RegCall("prev", prev(reg_self))

NextReg == RegNextN \/ RegPrevN \/ RegNext \/ RegPrev

SpecReg == InitReg /\ [][NextReg]_vars

(***************************************************************************)
(* What the last handler was given.                                        *)
(***************************************************************************)
\* A handler has run.
Ran == outcome # "None"

\* The instruction the last handler executed.
PreInstr == InstrAt(pre.ip)

\* The value a register of the returning frame held when the handler began.
PreReg(reg) == pre.cells[pre.sp + reg]

PreCondition == ToBool(PreReg(PreInstr.condition))

\* The last handler executed a return that was taken.
Taken ==
    /\ Ran
    /\ \/ PreInstr.op \in UnconditionalOps
       \/ PreInstr.op \in ConditionalOps /\ PreCondition

\* The last handler executed a conditional return whose condition was zero.
NotTaken == Ran /\ PreInstr.op \in ConditionalOps /\ ~PreCondition

\* The frame that executed the last handler, and the frame beneath it.
PreCallee == pre.calls[Len(pre.calls)]

PreCaller == pre.calls[Len(pre.calls) - 1]

\* The cell the i-th result (i = 0, 1, ..) of the last return belongs in.
DstCell(i) ==
    IF Len(pre.calls) >= 2
    THEN PreCaller.base_offset + PreCallee.results + i
    ELSE i

(***************************************************************************)
(* C1: after a taken return the active frame is popped; the outcome is     *)
(* Wasm exactly when a frame remains, and then ip and sp are those of the  *)
(* new top frame; the outcome is Host exactly when no frame remains.       *)
(***************************************************************************)
C1_ReturnOutcome ==
    Taken =>
        /\ calls = SubSeq(pre.calls, 1, Len(pre.calls) - 1)
        /\ (outcome = "Wasm") <=> (calls # <<>>)
        /\ (outcome = "Host") <=> (calls = <<>>)
        /\ calls # <<>> =>
              /\ ip = calls[Len(calls)].instr_ptr
              /\ sp = calls[Len(calls)].base_offset

C1_Witness ==
    /\ Taken
    /\ outcome = "Wasm"
    /\ Len(calls) = 1
    /\ ip = calls[1].instr_ptr
    /\ ip # pre.ip
    /\ sp # pre.sp

(***************************************************************************)
(* C2: a return of k register values (one, two or three registers, or a    *)
(* bounded span) by a frame with a caller beneath it leaves, for every     *)
(* i < k, in the caller's register (head of the result span + i) the value *)
(* the i-th source register held in the returning frame.                   *)
(***************************************************************************)
RegisterReturnOps ==
    {"ReturnReg", "ReturnReg2", "ReturnReg3", "ReturnSpan",
     "ReturnNezReg", "ReturnNezReg2", "ReturnNezSpan"}

\* The source registers of a register return, in order.
SourceRegs(instr) ==
    IF instr.op \in {"ReturnSpan", "ReturnNezSpan"}
    THEN [i \in 1..instr.len |-> instr.regs[1] + (i - 1)]
    ELSE instr.regs

C2_CallerReceivesRegisters ==
    (Taken /\ PreInstr.op \in RegisterReturnOps /\ Len(pre.calls) >= 2) =>
        \A i \in 1..Len(SourceRegs(PreInstr)) :
            cells[PreCaller.base_offset + PreCallee.results + (i - 1)]
                = PreReg(SourceRegs(PreInstr)[i])

C2_Witness ==
    /\ Taken
    /\ PreInstr.op = "ReturnSpan"
    /\ PreInstr.len = 4
    /\ Len(pre.calls) >= 2
    /\ PreCallee.results = 1
    /\ cells[PreCaller.base_offset + 4] = PreReg(PreInstr.regs[1] + 3)
    /\ cells[PreCaller.base_offset + 4] # pre.cells[PreCaller.base_offset + 4]

SingleRegisterReturn ==
    Taken /\ PreInstr.op \in {"ReturnReg", "ReturnNezReg"}

C4_Original ==
    (SingleRegisterReturn /\ Len(pre.calls) = 2) =>
        /\ len = PreCaller.base_offset
        /\ cells[PreCaller.base_offset + PreCallee.results] = PreReg(PreInstr.regs[1])
        /\ outcome = "Wasm"

(***************************************************************************)
(* C4, amended: the value stack is left at the frame offset of the callee, *)
(* which lies above B (the caller's registers stay on the value stack);    *)
(* the caller's result register holds v and the outcome is Wasm.           *)
(***************************************************************************)
C4_NestedReturn ==
    (SingleRegisterReturn /\ Len(pre.calls) = 2) =>
        /\ len = PreCallee.frame_offset
        /\ len > PreCaller.base_offset + PreCallee.results
        /\ cells[PreCaller.base_offset + PreCallee.results] = PreReg(PreInstr.regs[1])
        /\ outcome = "Wasm"

C4_Witness ==
    /\ SingleRegisterReturn
    /\ Len(pre.calls) = 2
    /\ outcome = "Wasm"
    /\ PreReg(PreInstr.regs[1]) # ZeroVal
    /\ cells[PreCaller.base_offset + PreCallee.results] = PreReg(PreInstr.regs[1])
    /\ pre.cells[PreCaller.base_offset + PreCallee.results] # PreReg(PreInstr.regs[1])

(***************************************************************************)
(* C5: a single-register return of v by the root frame, the only frame on  *)
(* the call stack, has outcome Host and leaves v in the cell at the very   *)
(* base of the value stack.                                                *)
(***************************************************************************)
C5_RootReturn ==
    (SingleRegisterReturn /\ Len(pre.calls) = 1) =>
        /\ outcome = "Host"
        /\ cells[0] = PreReg(PreInstr.regs[1])
        /\ calls = <<>>

C5_Witness ==
    /\ SingleRegisterReturn
    /\ Len(pre.calls) = 1
    /\ outcome = "Host"
    /\ cells[0] = PreReg(PreInstr.regs[1])
    /\ cells[0] # pre.cells[0]

(***************************************************************************)
(* The grammar of a continuation chain: RegisterList segments, then one    *)
(* terminal (Register, Register2 or Register3).                            *)
(***************************************************************************)
\* The position of the terminal of the chain that starts at p.
RECURSIVE TerminalPos(_)
TerminalPos(p) == IF InstrAt(p).op = "RegisterList" THEN TerminalPos(p + 1) ELSE p

NumSegments(p) == TerminalPos(p) - p

TerminalCount(p) ==
    LET op == InstrAt(TerminalPos(p)).op
    IN  IF op = "Register" THEN 1
        ELSE IF op = "Register2" THEN 2
        ELSE IF op = "Register3" THEN 3
        ELSE 0

\* The first position after p that holds no continuation operand.
NextInstruction(p) ==
    CHOOSE q \in (p + 1)..(Len(Program) + 1) :
        /\ InstrAt(q).op \notin ContinuationOps
        /\ \A r \in (p + 1)..(q - 1) : InstrAt(r).op \in ContinuationOps

ManyTaken == Taken /\ PreInstr.op \in {"ReturnMany", "ReturnNezMany"}

ManyNotTaken == NotTaken /\ PreInstr.op = "ReturnNezMany"

\* The registers a many-value return names, in stream order.
PreStream == PreInstr.regs \o ChainRegs(pre.ip + 1)

(***************************************************************************)
(* C6: a many-value return writes the values of its inline registers, of   *)
(* the registers of every segment and of the registers of the terminal, in *)
(* stream order, to consecutive cells from the head of the result span on; *)
(* no cell is skipped or written twice, and the values written number the  *)
(* inline registers, 3 per segment and the registers of the terminal.      *)
(***************************************************************************)
C6_ManyCopiedInStreamOrder ==
    ManyTaken =>
        /\ Len(wlog) = Len(PreInstr.regs) + 3 * NumSegments(pre.ip + 1)
                          + TerminalCount(pre.ip + 1)
        /\ Len(wlog) = Len(PreStream)
        /\ \A j \in 1..Len(wlog) :
              /\ wlog[j] = DstCell(j - 1)
              /\ cells[DstCell(j - 1)] = PreReg(PreStream[j])

C6_Witness ==
    /\ ManyTaken
    /\ NumSegments(pre.ip + 1) = 2
    /\ Len(pre.calls) >= 2
    /\ Len(wlog) = 9
    /\ wlog[9] = DstCell(8)
    /\ cells[DstCell(8)] = PreReg(0)
    /\ cells[DstCell(8)] # pre.cells[DstCell(8)]

(***************************************************************************)
(* C7, as stated: when the copy routine of a many-value return has walked  *)
(* the chain, the executor's instruction pointer is one past the terminal. *)
(***************************************************************************)
C7_Original == ManyTaken => ip = TerminalPos(pre.ip + 1) + 1

(***************************************************************************)
(* C7, amended: the copy routine walks the chain with a copy of the        *)
(* instruction pointer, which stops at the terminal (the last operand it   *)
(* consumes); the executor's own instruction pointer is not moved by the   *)
(* walk: after the return it is the resumed caller's (outcome Wasm) or one *)
(* past the return instruction (outcome Host).                             *)
(***************************************************************************)
C7_WalkStopsAtTerminal ==
    ManyTaken =>
        /\ cursor = TerminalPos(pre.ip + 1)
        /\ cursor = pre.ip + 1 + NumSegments(pre.ip + 1)
        /\ outcome = "Host" => ip = pre.ip + 1
        /\ outcome = "Wasm" => ip = calls[Len(calls)].instr_ptr

C7_Witness ==
    /\ ManyTaken
    /\ outcome = "Host"
    /\ NumSegments(pre.ip + 1) = 1
    /\ cursor = pre.ip + 2
    /\ ip = pre.ip + 1

(***************************************************************************)
(* C8, as stated: the instruction pointer after the false branch of a      *)
(* conditional many-value return has skipped the chain is the instruction  *)
(* pointer after the true branch has copied the same chain; the false      *)
(* branch pops no frame and copies no value.                               *)
(***************************************************************************)
\* The true branch of execute_return_nez_many.
TrueBranchMany(s, values) ==
    return_impl(copy_many_return_values(ip_add_1(s), s.ip + 1, values))

C8_Original ==
    ManyNotTaken =>
        /\ ip = TrueBranchMany(pre, PreInstr.regs).ip
        /\ calls = pre.calls
        /\ wlog = <<>>

(***************************************************************************)
(* C8, amended: the instruction pointer after the false branch is one past *)
(* the position at which the copy routine's walk of the same chain stops   *)
(* (its terminal): skip and copy consume the same operands; the false      *)
(* branch pops no frame and copies no value.                               *)
(***************************************************************************)
C8_SkipMatchesCopy ==
    ManyNotTaken =>
        /\ ip = copy_many_return_values(ip_add_1(pre), pre.ip + 1, PreInstr.regs).cursor + 1
        /\ calls = pre.calls
        /\ wlog = <<>>
        /\ cells = pre.cells

C8_Witness ==
    /\ ManyNotTaken
    /\ NumSegments(pre.ip + 1) = 2
    /\ TerminalCount(pre.ip + 1) = 1
    /\ ip = pre.ip + 4
    /\ calls = pre.calls
    /\ wlog = <<>>

(***************************************************************************)
(* C9: a conditional return whose condition register is zero leaves the    *)
(* call stack, the value stack and its length and the instance cache as    *)
(* they are; the instruction pointer is at the next instruction (one past  *)
(* the return for the forms without a chain); the outcome is Wasm.         *)
(***************************************************************************)
C9_NotTakenFrame ==
    NotTaken =>
        /\ calls = pre.calls
        /\ instances = pre.instances
        /\ cells = pre.cells
        /\ len = pre.len
        /\ cache = pre.cache
        /\ sp = pre.sp
        /\ wlog = <<>>
        /\ outcome = "Wasm"
        /\ ip = NextInstruction(pre.ip)
        /\ PreInstr.op # "ReturnNezMany" => ip = pre.ip + 1

C9_Witness ==
    /\ NotTaken
    /\ PreInstr.op = "ReturnNezSpan"
    /\ ip = pre.ip + 1
    /\ outcome = "Wasm"
    /\ Len(calls) = 2
    /\ cells = pre.cells

(***************************************************************************)
(* C10: a conditional return whose condition register is nonzero leaves    *)
(* the executor as the corresponding unconditional return, run from the    *)
(* same state with the same operands, leaves it.                           *)
(***************************************************************************)
Unconditional(s, instr) ==
    CASE instr.op = "ReturnNez" -> execute_return(s)
      [] instr.op = "ReturnNezReg" -> execute_return_reg(s, instr.regs[1])
      [] instr.op = "ReturnNezReg2" -> execute_return_reg2(s, instr.regs)
      [] instr.op = "ReturnNezImm32" -> execute_return_imm32(s, instr.imm)
      [] instr.op = "ReturnNezI64Imm32" -> execute_return_i64imm32(s, instr.imm)
      [] instr.op = "ReturnNezF64Imm32" -> execute_return_f64imm32(s, instr.imm)
      [] instr.op = "ReturnNezSpan" -> execute_return_span(s, instr.regs[1], instr.len)
      [] instr.op = "ReturnNezMany" -> execute_return_many(s, instr.regs)

C10_TakenIsUnconditional ==
    (Taken /\ PreInstr.op \in ConditionalOps) => Cur = Unconditional(pre, PreInstr)

C10_Witness ==
    /\ Taken
    /\ PreInstr.op = "ReturnNezMany"
    /\ Cur = Unconditional(pre, PreInstr)
    /\ Len(calls) = Len(pre.calls) - 1
    /\ Len(wlog) = 4
    /\ cells # pre.cells

(***************************************************************************)
(* C11: a return that is taken (zero-value, register, immediate, span or   *)
(* many) while the call stack is empty ends in a panic: the handler yields *)
(* no ReturnOutcome (neither Wasm nor Host), and the call stack stays      *)
(* empty.                                                                  *)
(***************************************************************************)
C11_EmptyStackPanics ==
    (Taken /\ pre.calls = <<>>) =>
        /\ outcome = "Panic"
        /\ outcome \notin {"Wasm", "Host"}
        /\ calls = <<>>

C11_Witness ==
    /\ Taken
    /\ pre.calls = <<>>
    /\ PreInstr.op = "ReturnMany"
    /\ outcome = "Panic"

(***************************************************************************)
(* What the last translator call was.                                      *)
(***************************************************************************)
Called(fn) == call.fn = fn

InI16(x) == -32768 <= x /\ x <= 32767

\* u32 a < u32 b, on limbs.
LessU32(a, b) == a[1] < b[1] \/ (a[1] = b[1] /\ a[2] < b[2])

(***************************************************************************)
(* C12: in a sequence of init calls on a BranchOffset that starts          *)
(* uninitialized, at most one init succeeds; an init on an initialized     *)
(* offset panics, and so does an init with an uninitialized argument; once *)
(* an init has succeeded the offset is the nonzero delta it was given, and *)
(* stays so.                                                               *)
(***************************************************************************)
C12_InitOnce ==
    /\ Len(inits) <= 1
    /\ inits = <<>> => offset = 0
    /\ inits # <<>> => offset = inits[1] /\ offset # 0
    /\ Called("BranchOffset::init") =>
          /\ call.kind \in {"Ok", "Panic"}
          /\ call.found # 0 => call.kind = "Panic"
          /\ call.arg = 0 => call.kind = "Panic"
          /\ call.kind = "Panic" => aborted
          /\ call.kind = "Ok" => inits = <<call.arg>>

C12_Witness ==
    /\ Called("BranchOffset::init")
    /\ call.kind = "Panic"
    /\ call.arg = 4
    /\ call.found = -40000
    /\ inits = <<-40000>>
    /\ offset = -40000

(***************************************************************************)
(* C13, as stated: from_src_to_dst(src, dst) with dst < src panics; it     *)
(* returns neither an offset nor an error.                                 *)
(***************************************************************************)
C13_BackwardPanics ==
    (Called("BranchOffset::from_src_to_dst") /\ LessU32(call.dst, call.src)) =>
        call.kind = "Panic"

(***************************************************************************)
(* C14, as stated: every offset from_src_to_dst returns is initialized     *)
(* (nonzero), and from_src_to_dst(src, dst) with src = dst panics.         *)
(***************************************************************************)
C14_ReturnedIsInit ==
    Called("BranchOffset::from_src_to_dst") =>
        /\ call.kind = "Ok" => call.value # 0
        /\ call.src = call.dst => call.kind = "Panic"

(***************************************************************************)
(* C15: BranchOffset16::init on an uninitialized receiver, given an        *)
(* initialized offset of delta d: for -32768 <= d <= 32767 it succeeds and *)
(* the receiver becomes d; otherwise it returns the error "branch offset   *)
(* out of bounds" and the receiver is as before, uninitialized, so that a  *)
(* later init does not panic.  BranchOffset16::try_from succeeds on        *)
(* exactly that range, with the delta for its value.                       *)
(***************************************************************************)
C15_Init16 ==
    /\ (Called("BranchOffset16::init") /\ call.found = 0 /\ call.arg # 0) =>
          IF InI16(call.arg)
          THEN call.kind = "Ok" /\ offset16 = call.arg
          ELSE /\ call.kind = "Err"
               /\ call.err = "BranchOffsetOutOfBounds"
               /\ offset16 = 0
               /\ ~aborted
    /\ Called("BranchOffset16::try_from") =>
          /\ call.kind = "Ok" <=> InI16(call.arg)
          /\ call.kind = "Ok" => call.value = call.arg
          /\ call.kind # "Ok" =>
                call.kind = "Err" /\ call.err = "BranchOffsetOutOfBounds"

C15_Witness ==
    /\ failed16
    /\ Called("BranchOffset16::init")
    /\ call.found = 0
    /\ call.arg = -32768
    /\ call.kind = "Ok"
    /\ offset16 = -32768

(***************************************************************************)
(* C16, as stated: for every comparator and every offset, positive or      *)
(* negative, of which at least one is nonzero, as_u64 returns 0.           *)
(***************************************************************************)
C16_Original ==
    (word # <<>> /\ (cao.cmp # 0 \/ cao.offset # 0)) => word = <<0, 0, 0, 0>>

(***************************************************************************)
(* C16, amended: as_u64 returns 0 for every offset that is not negative,   *)
(* whatever the comparator; for a negative offset it returns the           *)
(* comparator's discriminant in the high 32 bits over 32 zero bits, which  *)
(* is 0 only for the discriminant 0.                                       *)
(***************************************************************************)
C16_AsU64 ==
    word # <<>> =>
        /\ cao.offset >= 0 => word = <<0, 0, 0, 0>>
        /\ cao.offset < 0 => word = <<0, cao.cmp, 0, 0>>

C16_Witness ==
    /\ cao.cmp = 37
    /\ cao.offset = -1
    /\ word = <<0, 37, 0, 0>>

(***************************************************************************)
(* C17: for every comparator and offset of which at least one is nonzero,  *)
(* from_u64(new(cmp, offset).as_u64()) is not the pair (cmp, offset).      *)
(***************************************************************************)
C17_NoRoundTrip ==
    (decoded.kind # "NotCalled" /\ (cao.cmp # 0 \/ cao.offset # 0)) =>
        ~(/\ decoded.kind = "Some"
          /\ decoded.cmp = cao.cmp
          /\ decoded.offset = cao.offset)

C17_Witness ==
    /\ cao.cmp = 16
    /\ cao.offset = -40000
    /\ word = <<0, 16, 0, 0>>
    /\ decoded = [kind |-> "Some", cmp |-> 16, offset |-> 0]

(***************************************************************************)
(* What the calls on the BlockFuel were.  The arithmetic here is done by   *)
(* comparison and subtraction, not by the adder of the model.              *)
(***************************************************************************)
\* The total the i-th call left.
FuelAfter(i) == IF i = Len(fuel_log) THEN fuel ELSE fuel_log[i + 1].found

Bumps == {i \in 1..Len(fuel_log) : fuel_log[i].fn = "bump_by"}

\* u32 a <= u32 b, on limbs.
LeqU32(a, b) == a[1] < b[1] \/ (a[1] = b[1] /\ a[2] <= b[2])

\* t + amount <= 2^32 - 1, as amount <= (2^32 - 1) - t.
FitsU32(t, amount) ==
    /\ amount[1] = 0
    /\ amount[2] = 0
    /\ LeqU32(<<amount[3], amount[4]>>, <<65535 - t[1], 65535 - t[2]>>)

\* a - b for u32 a >= b.
MinusU32(a, b) ==
    IF a[2] >= b[2] THEN <<a[1] - b[1], a[2] - b[2]>>
    ELSE <<a[1] - b[1] - 1, a[2] - b[2] + 65536>>

\* u32 as u64, zero-extended.
Widen(a) == <<0, 0, a[1], a[2]>>

IsU32(x) == Len(x) = 2 /\ x[1] \in 0..65535 /\ x[2] \in 0..65535

(***************************************************************************)
(* C18: bump_by(amount) on a BlockFuel of total t succeeds, and leaves the *)
(* total t + amount, exactly when t + amount <= 2^32 - 1; otherwise it     *)
(* returns the error "block fuel out of bounds" and leaves the total t.    *)
(* After any sequence of try_from and bump_by the total is a u32.          *)
(***************************************************************************)
C18_BumpBy ==
    /\ IsU32(fuel)
    /\ \A i \in Bumps :
          LET t      == fuel_log[i].found
              amount == fuel_log[i].amount
          IN  IF FitsU32(t, amount)
              THEN /\ fuel_log[i].kind = "Ok"
                   /\ LeqU32(t, FuelAfter(i))
                   /\ Widen(MinusU32(FuelAfter(i), t)) = amount
              ELSE /\ fuel_log[i].kind = "Err"
                   /\ fuel_log[i].err = "BlockFuelOutOfBounds"
                   /\ FuelAfter(i) = t

C18_Witness ==
    /\ Len(fuel_log) = 3
    /\ fuel_log[1] = [fn |-> "bump_by", found |-> <<0, 50>>, amount |-> <<0, 0, 0, 1>>,
                       kind |-> "Ok", err |-> "none"]
    /\ fuel_log[2] = [fn |-> "bump_by", found |-> <<0, 51>>,
                       amount |-> <<0, 0, 65535, 65485>>,
                       kind |-> "Err", err |-> "BlockFuelOutOfBounds"]
    /\ fuel_log[3] = [fn |-> "bump_by", found |-> <<0, 51>>,
                       amount |-> <<65535, 65535, 65535, 65535>>,
                       kind |-> "Err", err |-> "BlockFuelOutOfBounds"]
    /\ fuel = <<0, 51>>

(***************************************************************************)
(* C19, as stated: on a BlockFuel whose total is 2^32 - 1, bump_by fails   *)
(* for every amount.                                                       *)
(***************************************************************************)
C19_Original ==
    \A i \in Bumps :
        fuel_log[i].found = <<65535, 65535>> => fuel_log[i].kind = "Err"

(***************************************************************************)
(* C19, amended: on a BlockFuel whose total is 2^32 - 1, bump_by fails for *)
(* every amount of 1 or more and succeeds for the amount 0; the total is   *)
(* 2^32 - 1 after either.                                                  *)
(***************************************************************************)
C19_AtMaximum ==
    \A i \in Bumps :
        fuel_log[i].found = <<65535, 65535>> =>
            /\ fuel_log[i].amount # <<0, 0, 0, 0>> =>
                  fuel_log[i].kind = "Err" /\ fuel_log[i].err = "BlockFuelOutOfBounds"
            /\ fuel_log[i].amount = <<0, 0, 0, 0>> => fuel_log[i].kind = "Ok"
            /\ FuelAfter(i) = <<65535, 65535>>

C19_Witness ==
    /\ Len(fuel_log) = 2
    /\ fuel_log[1] = [fn |-> "bump_by", found |-> <<65535, 65535>>,
                       amount |-> <<0, 0, 0, 0>>, kind |-> "Ok", err |-> "none"]
    /\ fuel_log[2] = [fn |-> "bump_by", found |-> <<65535, 65535>>,
                       amount |-> <<0, 0, 0, 1>>,
                       kind |-> "Err", err |-> "BlockFuelOutOfBounds"]
    /\ fuel = <<65535, 65535>>

(***************************************************************************)
(* C20: when bump_by(a) and then bump_by(b) both succeed from the total t, *)
(* a + b is a u64, one bump_by(a + b) from t succeeds too, and it leaves   *)
(* the total the two calls left, t + a + b.                                *)
(***************************************************************************)
C20_BumpsAdd ==
    \A i \in Bumps :
        (i + 1 \in Bumps /\ fuel_log[i].kind = "Ok" /\ fuel_log[i + 1].kind = "Ok") =>
            LET t      == fuel_log[i].found
                a      == fuel_log[i].amount
                b      == fuel_log[i + 1].amount
                ab     == checked_add(a, b)
                single == bump_by(t, ab.value)
            IN  /\ ab.some
                /\ single.kind = "Ok"
                /\ single.self = FuelAfter(i + 1)
                /\ LeqU32(t, FuelAfter(i + 1))
                /\ Widen(MinusU32(FuelAfter(i + 1), t)) = ab.value
                /\ b[1] = 0 /\ b[2] = 0
                /\ LeqU32(<<b[3], b[4]>>, FuelAfter(i + 1))
                /\ LeqU32(t, MinusU32(FuelAfter(i + 1), <<b[3], b[4]>>))
                /\ Widen(MinusU32(MinusU32(FuelAfter(i + 1), <<b[3], b[4]>>), t)) = a

C20_Witness ==
    /\ Len(fuel_log) = 2
    /\ fuel_log[1] = [fn |-> "bump_by", found |-> <<0, 0>>, amount |-> <<0, 0, 0, 50>>,
                       kind |-> "Ok", err |-> "none"]
    /\ fuel_log[2] = [fn |-> "bump_by", found |-> <<0, 50>>,
                       amount |-> <<0, 0, 65535, 65485>>, kind |-> "Ok", err |-> "none"]
    /\ fuel = <<65535, 65535>>

(***************************************************************************)
(* C21: for every index and every step count n, next_n(n) followed by      *)
(* prev_n(n), and prev_n(n) followed by next_n(n), give the Reg back; the  *)
(* results stay 16-bit signed indices, wrapping at the ends of the range:  *)
(* the next of Reg(32767) is Reg(-32768).                                  *)
(***************************************************************************)
C21_NextPrevRoundTrip ==
    /\ reg_self \in -32768..32767
    /\ reg_ops = <<"next_n", "prev_n">> => reg_self = reg_from.index
    /\ reg_ops = <<"prev_n", "next_n">> => reg_self = reg_from.index
    /\ reg_ops = <<"next", "prev">> => reg_self = reg_from.index
    /\ reg_ops = <<"prev", "next">> => reg_self = reg_from.index
    /\ (reg_ops = <<"next">> /\ reg_from.index = 32767) => reg_self = -32768
    /\ (reg_ops = <<"prev">> /\ reg_from.index = -32768) => reg_self = 32767
    /\ (reg_ops = <<"next_n">> /\ reg_from.index + reg_from.n <= 32767) =>
          reg_self = reg_from.index + reg_from.n
    /\ (reg_ops = <<"next_n">> /\ reg_from.index + reg_from.n > 32767) =>
          reg_self = reg_from.index + reg_from.n - 65536

C21_Witness ==
    /\ reg_from = [index |-> 32767, n |-> 65535]
    /\ reg_ops = <<"next_n", "prev_n">>
    /\ reg_self = 32767

(***************************************************************************)
(* C22: in every return that carries register values, a many-value return  *)
(* by the root frame included, the cells written are the destination       *)
(* cells, in order; each lies beneath the cells of the returning frame     *)
(* (its constants and its registers) and is none of its source registers;  *)
(* and the i-th destination cell holds the value the i-th source register  *)
(* held when the return began.                                             *)
(***************************************************************************)
\* The source registers of the last return, in order.
PreSources ==
    IF PreInstr.op \in {"ReturnMany", "ReturnNezMany"} THEN PreStream
    ELSE SourceRegs(PreInstr)

RegisterValuesReturned ==
    Taken /\ PreInstr.op \in RegisterReturnOps \union {"ReturnMany", "ReturnNezMany"}

FuncAt(p) == CHOOSE f \in Funcs : p \in FuncStart(f)..FuncEnd(f)

Refreshed == PreCallee.changed_instance /\ instances # <<>>

C23_CacheRefresh ==
    Taken =>
        /\ instances # <<>> <=> calls # <<>>
        /\ Refreshed =>
              /\ cache = instances[Len(instances)]
              /\ cache = FuncInstance(FuncAt(ip))
        /\ ~Refreshed => cache = pre.cache
        /\ cache # pre.cache <=> Refreshed

C23_Witness ==
    /\ Taken
    /\ Len(pre.calls) = 2
    /\ PreCallee.changed_instance
    /\ pre.cache = 2
    /\ cache = 1
    /\ FuncAt(ip) = 1

(***************************************************************************)
(* C24: from a call stack of depth d >= 1, every taken return lowers the   *)
(* depth by exactly one and no handler raises the length of the value      *)
(* stack or pushes a frame; the taken returns of a run have the outcome    *)
(* Wasm d - 1 times and then Host once, and after the Host the call stack  *)
(* is empty.                                                               *)
(***************************************************************************)
C24_RunOfReturns ==
    /\ depth0 >= 1
    /\ Len(calls) = depth0 - Len(outcomes)
    /\ Len(calls) <= Len(pre.calls)
    /\ Taken => Len(calls) = Len(pre.calls) - 1
    /\ len <= pre.len
    /\ \A j \in 1..Len(outcomes) :
          outcomes[j] = IF j < depth0 THEN "Wasm" ELSE "Host"
    /\ Len(outcomes) = depth0 => calls = <<>> /\ outcome = "Host"

C24_Witness ==
    /\ depth0 = 2
    /\ outcomes = <<"Wasm", "Host">>
    /\ calls = <<>>
    /\ len < pre.len

(***************************************************************************)
(* C25: a return of k values changes, in the part of the value stack that  *)
(* is left after the truncation, the k destination cells only: those from  *)
(* the head of the result span on in the window of the caller that         *)
(* resumes, or from the base of the value stack on when the root returns.  *)
(* Every other cell that is left is as the return found it, and so is      *)
(* every frame that remains, its base offset and its result span included. *)
(***************************************************************************)
\* The destination cells of the last return.
DstCells == {DstCell(i) : i \in 0..(ReturnCount(pre.ip) - 1)}

C25_FrameEffect ==
    Taken =>
        /\ DstCells \subseteq 0..(len - 1)
        /\ {wlog[j] : j \in 1..Len(wlog)} = DstCells
        /\ \A a \in 0..(len - 1) : a \notin DstCells => cells[a] = pre.cells[a]
        /\ Len(calls) = Len(pre.calls) - 1
        /\ \A i \in 1..Len(calls) :
              /\ calls[i].base_offset = pre.calls[i].base_offset
              /\ calls[i].results = pre.calls[i].results
              /\ calls[i] = pre.calls[i]

C25_Witness ==
    /\ Taken
    /\ PreInstr.op = "ReturnSpan"
    /\ ReturnCount(pre.ip) = 4
    /\ Len(pre.calls) = 2
    /\ PreCallee.results = 1
    /\ \A i \in 0..3 : cells[DstCell(i)] # pre.cells[DstCell(i)]
    /\ calls = <<pre.calls[1]>>

====
